---- MODULE Spec2Model ----
(***************************************************************************)
(* Model of the tubely upload handlers.                                    *)
(*                                                                         *)
(*   handlerUploadVideo       src/handler_upload_video.go 26-168           *)
(*   getVideoAspectRatio      src/handler_upload_video.go 170-205          *)
(*   processVideoForFastStart src/handler_upload_video.go 207-228          *)
(*   dbVideoToSignedVideo     src/handler_upload_video.go 230-246          *)
(*   handlerUploadThumbnail   src/handler_upload_thumbnail.go 102-181      *)
(*                                                                         *)
(* A request is handled by one goroutine; the model runs the handler of    *)
(* each request slot step by step, one step per call that touches the      *)
(* database, the object store, the filesystem or an external tool, so that *)
(* the steps of concurrent requests interleave.  A return statement runs   *)
(* the deferred calls of the handler in the same step.                     *)
(*                                                                         *)
(* Strings are sequences of chunks: "video/mp4" is <<"video","/","mp4">>.  *)
(***************************************************************************)
EXTENDS Integers, Sequences, FiniteSets, TLC

(***************************************************************************)
(* Bounds of the model.                                                    *)
(***************************************************************************)
\* total number of requests received over a behaviour
MaxRequests == 2
\* largest pixel width / height enumerated for the classification
MaxDim == 50
\* total number of thumbnail uploads received over a behaviour
MaxThumbs == 1

\* request slots (goroutines serving requests concurrently)
Procs == {"p1", "p2"}
\* names os.CreateTemp can generate for "tubely-upload-*.mp4"
TempNames == {"tubely-upload-1.mp4", "tubely-upload-2.mp4"}

(***************************************************************************)
(* Program constants.                                                      *)
(***************************************************************************)
uploadLimit == 1073741824
StatusOK == 200
StatusBadRequest == 400
StatusUnauthorized == 401
StatusNotFound == 404
StatusInternalServerError == 500

\* a nil *string
NULL == <<"<nil>">>
s3Bucket == <<"tubely-bucket">>

(***************************************************************************)
(* The world around the handler.                                           *)
(***************************************************************************)
Users == {"u1", "u2"}
\* values of the videoID path parameter: an existing video, a well-formed
\* id without a record, and a string that is not a UUID
VideoIDStrings == {"v1", "v2", "not-a-uuid"}
StoredVideos == {"v1"}
OwnerOf(v) == "u1"
\* Authorization header: absent, a token that does not validate, or a
\* valid token of a user
Tokens == {"none", "bad"} \cup Users
\* sizes of the request body in bytes
BodySizes == {1, uploadLimit + 1}
\* Content-Type headers of the "video" part
ContentTypes ==
    { <<"video", "/", "mp4">>,
      <<"VIDEO", "/", "MP4", ";", "codecs=avc1">>,
      <<"image", "/", "png">>,
      <<"video", "/", "webm">>,
      <<"video">>,
      <<>> }
\* Content-Type headers of the "thumbnail" part; a part without the header
\* gives the empty string
ThumbContentTypes ==
    { <<"image", "/", "png">>,
      <<"image", "/", "svg+xml", ";", "charset=utf-8">>,
      <<"png">>,
      <<>> }
\* (width, height) of the first stream reported by ffprobe in the pipeline
ProbeDims == { <<1920, 1080>>, <<0, 0>> }

(***************************************************************************)
(* String helpers.                                                         *)
(***************************************************************************)
Min(a, b) == IF a < b THEN a ELSE b

\* index of the first occurrence of chunk c in s, 0 when absent
IndexOf(s, c) ==
    IF \E i \in 1..Len(s) : s[i] = c
    THEN CHOOSE i \in 1..Len(s) : s[i] = c /\ \A j \in 1..(i - 1) : s[j] # c
    ELSE 0

\* strings.ToLower on a chunk
ToLowerChunk(c) ==
    CASE c = "VIDEO" -> "video"
      [] c = "MP4" -> "mp4"
      [] OTHER -> c

ToLower(s) == [i \in 1..Len(s) |-> ToLowerChunk(s[i])]

\* strings.Split(s, sep): the pieces of s between occurrences of sep
RECURSIVE Split(_, _)
Split(s, sep) ==
    LET i == IndexOf(s, sep)
    IN  IF i = 0 THEN <<s>>
        ELSE <<SubSeq(s, 1, i - 1)>> \o Split(SubSeq(s, i + 1, Len(s)), sep)

\* mutant: the presigned URL is what gets stored
SprintfComma_presigned(a, b) == <<"https://">> \o a \o <<"/">> \o b \o <<"?X-Amz-Signature">>

\* mutant: bucket and key are joined the way a path is
SprintfComma_slash(a, b) == a \o <<"/">> \o b

\* fmt.Sprintf("%s,%s", a, b)
SprintfComma(a, b) == a \o <<",">> \o b

\* path.Join(dir, name) for two non-empty clean elements
PathJoin(dir, name) == dir \o <<"/">> \o name

(***************************************************************************)
(* mime.ParseMediaType, as called at line 71: the text before the first    *)
(* ";" is lower-cased and must be a token, or token "/" token.             *)
(***************************************************************************)
IsToken(c) == c \notin {"/", ";", ","}

ParseMediaType(v) ==
    LET i == IndexOf(v, ";")
        base == ToLower(IF i = 0 THEN v ELSE SubSeq(v, 1, i - 1))
        ok == \/ Len(base) = 1 /\ IsToken(base[1])
              \/ Len(base) = 3 /\ IsToken(base[1]) /\ base[2] = "/" /\ IsToken(base[3])
    IN  IF ok THEN [err |-> FALSE, mediaType |-> base]
        ELSE [err |-> TRUE, mediaType |-> <<>>]

\* mutant: the allow-list compares only the top-level type
SupportedMediaType_anyVideo(mediaType) == Len(mediaType) > 0 /\ mediaType[1] = "video"

\* line 77: mediaType != "video/mp4" is the rejection
SupportedMediaType(mediaType) == mediaType = <<"video", "/", "mp4">>

(***************************************************************************)
(* getVideoAspectRatio, lines 193-204.                                     *)
(*                                                                         *)
(* width and height are float64.  TruncPct is math.Floor((width/height)    *)
(* *100): for height 0 the quotient is +Inf (width > 0) or NaN (0/0).      *)
(* When 100*width/height is an integer n, the double nearest to n/100      *)
(* times 100 rounds to just below n for the n of RoundsBelow (IEEE-754     *)
(* binary64, round to nearest even), and the floor is n - 1; for every     *)
(* other quotient with dimensions below 2^16 the floor is the exact one.   *)
(* RoundsBelow lists those n up to 255; a larger n leaves the truncated    *)
(* value at 2.55 or more, outside both bands either way.                   *)
(***************************************************************************)
RoundsBelow ==
    {29, 57, 58, 113, 114, 115, 116, 201, 203, 205, 207,
     226, 228, 230, 232, 251, 253, 255}

TruncPct(width, height) ==
    IF height = 0
    THEN [kind |-> IF width = 0 THEN "NaN" ELSE "Inf", k |-> 0]
    ELSE LET n == (100 * width) \div height
         IN  IF (100 * width) % height = 0 /\ n \in RoundsBelow
             THEN [kind |-> "num", k |-> n - 1]
             ELSE [kind |-> "num", k |-> n]

\* ratio > lo/100 && ratio < hi/100, ratio being r.k / 100
\* (every comparison with NaN is false; +Inf is above every bound)
Between(r, lo, hi) == r.kind = "num" /\ r.k > lo /\ r.k < hi

\* mutant: inclusive lower bounds
AspectOfRatio_inclusive(r) ==
    IF r.kind = "num" /\ r.k >= 54 /\ r.k < 58 THEN <<"9:16">>
    ELSE IF r.kind = "num" /\ r.k >= 174 /\ r.k < 178 THEN <<"16:9">>
    ELSE <<"other">>

\* lines 199-204
AspectOfRatio(r) ==
    IF Between(r, 54, 58) THEN <<"9:16">>
    ELSE IF Between(r, 174, 178) THEN <<"16:9">>
    ELSE <<"other">>

\* what ffprobe and the JSON decoding can produce
ProbeOutputs ==
    { [kind |-> k, w |-> 0, h |-> 0] : k \in {"execError", "badJSON", "noStreams"} }
    \cup { [kind |-> "streams", w |-> d[1], h |-> d[2]] : d \in ProbeDims }

\* lines 170-205, on the outcome of the probe
getVideoAspectRatio(out) ==
    IF out.kind \in {"execError", "badJSON", "noStreams"}
    THEN [err |-> TRUE, ratio |-> <<>>]
    ELSE [err |-> FALSE, ratio |-> AspectOfRatio(TruncPct(out.w, out.h))]

\* lines 111-118
DirectoryOf(aspectRatio) ==
    CASE aspectRatio = <<"16:9">> -> <<"landscape">>
      [] aspectRatio = <<"9:16">> -> <<"portrait">>
      [] OTHER -> <<"other">>

(***************************************************************************)
(* getAssetPath(mediaType): 32 random bytes, encoded, then "." and the     *)
(* subtype of the media type.  The random part is modelled by a value      *)
(* that is fresh for each call.                                            *)
(***************************************************************************)
getAssetPath(rnd, mediaType) ==
    LET parts == Split(mediaType, "/")
        ext == IF Len(parts) >= 2 THEN parts[2] ELSE <<"bin">>
    IN  <<rnd>> \o <<".">> \o ext

(***************************************************************************)
(* Files.  A path is a sequence of chunks; fs maps every path to the       *)
(* content of the file there, or to Absent.                                *)
(***************************************************************************)
Absent == [kind |-> "absent", rid |-> 0]

\* fmt.Sprintf("%s.processing", inputFilePath), line 208
ProcessingPath(inputFilePath) == inputFilePath \o <<".processing">>

\* lines 151-155 of handler_upload_thumbnail.go: the second piece of the
\* Content-Type header split on "/" is the extension of the file
\* <assetsRoot>/<videoID>.<extension>
ThumbnailPath(videoIDString, parts) == <<videoIDString, ".">> \o parts[2]

ThumbnailPaths ==
    { ThumbnailPath(v, Split(ct, "/")) :
        v \in StoredVideos, ct \in {c \in ThumbContentTypes : Len(Split(c, "/")) >= 2} }

Paths ==
    { <<n>> : n \in TempNames } \cup { ProcessingPath(<<n>>) : n \in TempNames }
        \cup ThumbnailPaths

\* a deferred call: os.Remove(path) or Close of an open file
Defer(op, path) == [op |-> op, path |-> path]

\* mutant: deferred calls are dropped at return
RunDefers_none(f, ds) == f

\* the deferred calls run last-in first-out when the handler returns
RECURSIVE RunDefers(_, _)
RunDefers(f, ds) ==
    IF ds = <<>> THEN f
    ELSE LET d == ds[Len(ds)]
             g == IF d.op = "Remove" THEN [f EXCEPT ![d.path] = Absent] ELSE f
         IN  RunDefers(g, SubSeq(ds, 1, Len(ds) - 1))

(***************************************************************************)
(* database.Video, and the records the database starts with: drafts, no    *)
(* video uploaded yet.                                                     *)
(***************************************************************************)
Video(id, user, videoURL, thumbnailURL) ==
    [ID |-> id, UserID |-> user, VideoURL |-> videoURL, ThumbnailURL |-> thumbnailURL]

NoVideo == Video("", "", NULL, NULL)

\* the presigned URL of generatePresignedURL, lines 248-259
PresignedURL(bucket, key) ==
    <<"https://">> \o bucket \o <<"/">> \o key \o <<"?X-Amz-Signature">>

\* lines 230-246; signOK is whether PresignGetObject succeeds
dbVideoToSignedVideo(video, signOK) ==
    IF video.VideoURL = NULL THEN [video |-> video, err |-> FALSE]
    ELSE LET parts == Split(video.VideoURL, ",")
         IN  IF Len(parts) < 2 THEN [video |-> video, err |-> FALSE]
             ELSE IF ~signOK THEN [video |-> video, err |-> TRUE]
             ELSE [video |-> [video EXCEPT !.VideoURL = PresignedURL(parts[1], parts[2])],
                   err |-> FALSE]

(***************************************************************************)
(* State.                                                                  *)
(***************************************************************************)
VARIABLES
    db,         \* cfg.db: video id -> database.Video
    s3,         \* objects of the bucket: set of [Key, Body, ContentType]
    fs,         \* files under cfg.assetsRoot: path -> content
    pc,         \* per request slot: where its handler stands
    req,        \* per slot: the request being served
    loc,        \* per slot: the local variables of the handler
    resp,       \* per slot: the response written
    hist,       \* per slot: what this invocation has done so far (history)
    lastWriter, \* video id -> id of the request whose UpdateVideo wrote last
    nreq,       \* requests received so far
    cw, ch, cres, \* classification of one size: width, height, result
    th          \* the thumbnail upload being served: request, locals, response

vars == <<db, s3, fs, pc, req, loc, resp, hist, lastWriter, nreq, cw, ch, cres, th>>

\* no thumbnail upload is being served; n counts the uploads received
NoThumb ==
    [pc |-> "idle", n |-> 0, videoIDString |-> "", userID |-> "",
     hasPart |-> FALSE, contentType |-> <<>>, dbVideo |-> NoVideo, filePath |-> <<>>,
     status |-> 0, msg |-> "", body |-> NoVideo]

\* a request: its number, the videoID path value, the bearer token, and
\* (once read) the length of the body in bytes, whether it has a "video"
\* part, and the Content-Type header of that part
NoReq ==
    [rid |-> 0, videoIDString |-> "", token |-> "",
     bodyRead |-> FALSE, bodyLen |-> 0, hasPart |-> FALSE, contentType |-> <<>>]

NoLoc ==
    [userID |-> "", dbVideo |-> NoVideo, mediaType |-> <<>>, tempFile |-> <<>>,
     directory |-> <<>>, processedFilePath |-> <<>>, key |-> <<>>, defers |-> <<>>]

NoResp == [status |-> 0, msg |-> "", body |-> NoVideo]

\* no probe has run
NoProbe == [kind |-> "", w |-> 0, h |-> 0]

NoHist ==
    [bytesRead |-> 0, created |-> {}, probe |-> NoProbe, probed |-> FALSE,
     remuxed |-> FALSE,
     remuxExit |-> "", puts |-> 0, putOK |-> FALSE, putBody |-> Absent,
     updates |-> 0, recBefore |-> NoVideo, writerBefore |-> 0]

InitPipeline ==
    /\ db = [v \in StoredVideos |-> Video(v, OwnerOf(v), NULL, NULL)]
    /\ s3 = {}
    /\ fs = [q \in Paths |-> Absent]
    /\ pc = [p \in Procs |-> "idle"]
    /\ req = [p \in Procs |-> NoReq]
    /\ loc = [p \in Procs |-> NoLoc]
    /\ resp = [p \in Procs |-> NoResp]
    /\ hist = [p \in Procs |-> NoHist]
    /\ lastWriter = [v \in StoredVideos |-> 0]
    /\ nreq = 0
    /\ th = NoThumb

Init == InitPipeline /\ cw = 0 /\ ch = 0 /\ cres = <<>>

\* respondWithError / respondWithJSON followed by return: the response is
\* written and the deferred calls ds run on the files f
Return(p, status, msg, body, f, ds) ==
    /\ resp' = [resp EXCEPT ![p] = [status |-> status, msg |-> msg, body |-> body]]
    /\ pc' = [pc EXCEPT ![p] = "done"]
    /\ fs' = RunDefers(f, ds)

Goto(p, label) ==
    /\ pc' = [pc EXCEPT ![p] = label]
    /\ resp' = resp

(***************************************************************************)
(* handlerUploadVideo                                                      *)
(***************************************************************************)
\* the server hands a request to the handler.  What the request carries is
\* drawn where the handler first reads it: the path value here, the
\* Authorization header in Authenticate, the body in FormFile.  Slots are
\* interchangeable, so a request takes the first idle one.
Receive(p) ==
    /\ pc[p] = "idle"
    /\ p = "p2" => pc["p1"] # "idle"
    /\ nreq < MaxRequests
    /\ \E v \in VideoIDStrings :
         req' = [req EXCEPT ![p] = [NoReq EXCEPT !.rid = nreq + 1,
                                                 !.videoIDString = v]]
    /\ nreq' = nreq + 1
    /\ loc' = [loc EXCEPT ![p] = NoLoc]
    /\ hist' = [hist EXCEPT ![p] =
                  [NoHist EXCEPT
                     !.recBefore = IF req'[p].videoIDString \in StoredVideos
                                   THEN db[req'[p].videoIDString] ELSE NoVideo,
                     !.writerBefore = IF req'[p].videoIDString \in StoredVideos
                                      THEN lastWriter[req'[p].videoIDString] ELSE 0]]
    /\ pc' = [pc EXCEPT ![p] = "auth"]
    /\ resp' = [resp EXCEPT ![p] = NoResp]
    /\ UNCHANGED <<db, s3, fs, lastWriter, cw, ch, cres, th>>

\* lines 27-44: uuid.Parse, auth.GetBearerToken, auth.ValidateJWT
Authenticate(p) ==
    /\ pc[p] = "auth"
    /\ UNCHANGED <<db, s3, hist, lastWriter, nreq, cw, ch, cres, th>>
    /\ IF req[p].videoIDString = "not-a-uuid"
       THEN /\ Return(p, StatusBadRequest, "Invalid ID", NoVideo, fs, loc[p].defers)
            /\ UNCHANGED <<req, loc>>
       ELSE \E t \in Tokens :
              /\ req' = [req EXCEPT ![p].token = t]
              /\ IF t = "none"
                 THEN /\ Return(p, StatusUnauthorized, "Couldn't find JWT", NoVideo,
                                fs, loc[p].defers)
                      /\ loc' = loc
                 ELSE IF t = "bad"
                 THEN /\ Return(p, StatusUnauthorized, "Couldn't validate JWT", NoVideo,
                                fs, loc[p].defers)
                      /\ loc' = loc
                 ELSE /\ loc' = [loc EXCEPT ![p].userID = t]
                      /\ Goto(p, "getVideo")
                      /\ fs' = fs

\* mutant: the ownership comparison is skipped
IsOwner_anyone(video, userID) == TRUE

\* line 53: dbVideo.UserID != userID is the rejection
IsOwner(video, userID) == video.UserID = userID

\* lines 46-56: cfg.db.GetVideo and the ownership check
GetVideo(p) ==
    /\ pc[p] = "getVideo"
    /\ UNCHANGED <<db, s3, req, hist, lastWriter, nreq, cw, ch, cres, th>>
    /\ \E dbErr \in BOOLEAN :
         IF dbErr \/ req[p].videoIDString \notin StoredVideos
         THEN /\ Return(p, StatusInternalServerError, "Couldn't find video", NoVideo,
                        fs, loc[p].defers)
              /\ loc' = loc
         ELSE LET dbVideo == db[req[p].videoIDString]
              IN  IF ~IsOwner(dbVideo, loc[p].userID)
                  THEN /\ Return(p, StatusUnauthorized, "Not authorized to update this video",
                                 NoVideo, fs, loc[p].defers)
                       /\ loc' = [loc EXCEPT ![p].dbVideo = dbVideo]
                  ELSE /\ loc' = [loc EXCEPT ![p].dbVideo = dbVideo]
                       /\ Goto(p, "formFile")
                       /\ fs' = fs

\* lines 58-80: the body is read through http.MaxBytesReader by r.FormFile,
\* then the Content-Type header of the "video" part is parsed and checked.
\* A body over the limit fails the read before its parts are known, and the
\* header of a part that is missing is never read.
FormFile(p) ==
    /\ pc[p] = "formFile"
    /\ UNCHANGED <<db, s3, lastWriter, nreq, cw, ch, cres, th>>
    /\ \E n \in BodySizes :
         /\ hist' = [hist EXCEPT ![p].bytesRead = Min(n, uploadLimit)]
         /\ IF n > uploadLimit
            THEN /\ req' = [req EXCEPT ![p].bodyRead = TRUE, ![p].bodyLen = n]
                 /\ Return(p, StatusBadRequest, "Unable to parse form file", NoVideo,
                           fs, loc[p].defers)
                 /\ loc' = loc
            ELSE \/ /\ req' = [req EXCEPT ![p].bodyRead = TRUE, ![p].bodyLen = n]
                    /\ Return(p, StatusBadRequest, "Unable to parse form file", NoVideo,
                              fs, loc[p].defers)
                    /\ loc' = loc
                 \/ \E ct \in ContentTypes :
                      LET mt == ParseMediaType(ct)
                          ds == Append(loc[p].defers, Defer("Close", <<"file">>))
                      IN  /\ req' = [req EXCEPT ![p].bodyRead = TRUE, ![p].bodyLen = n,
                                                ![p].hasPart = TRUE,
                                                ![p].contentType = ct]
                          /\ IF mt.err
                             THEN /\ Return(p, StatusBadRequest, "Invalid Content-Type",
                                            NoVideo, fs, ds)
                                  /\ loc' = loc
                             ELSE IF ~SupportedMediaType(mt.mediaType)
                             THEN /\ Return(p, StatusBadRequest,
                                            "Invalid file type, only MP4 is allowed",
                                            NoVideo, fs, ds)
                                  /\ loc' = [loc EXCEPT ![p].mediaType = mt.mediaType]
                             ELSE /\ loc' = [loc EXCEPT ![p].mediaType = mt.mediaType,
                                                       ![p].defers = ds]
                                  /\ Goto(p, "createTemp")
                                  /\ fs' = fs

\* mutant: the generated name is not checked against the existing files
FreeName_any(f, n) == TRUE

\* os.CreateTemp opens the file with O_EXCL: a name is taken only when no
\* file has it
FreeName(f, n) == f[<<n>>] = Absent

\* lines 82-89: os.CreateTemp creates an empty file under a name no existing
\* file has
CreateTemp(p) ==
    /\ pc[p] = "createTemp"
    /\ UNCHANGED <<db, s3, req, lastWriter, nreq, cw, ch, cres, th>>
    /\ \/ /\ Return(p, StatusInternalServerError, "Could not create temp file", NoVideo,
                    fs, loc[p].defers)
          /\ UNCHANGED <<loc, hist>>
       \/ \E n \in TempNames :
            /\ FreeName(fs, n)
            /\ fs' = [fs EXCEPT ![<<n>>] = [kind |-> "empty", rid |-> req[p].rid]]
            /\ loc' = [loc EXCEPT ![p].tempFile = <<n>>,
                                  ![p].defers = @ \o << Defer("Remove", <<n>>),
                                                        Defer("Close", <<n>>) >>]
            /\ hist' = [hist EXCEPT ![p].created = @ \cup {<<n>>}]
            /\ Goto(p, "copy")

\* lines 91-102: io.Copy to the temp file, then Seek to its start
CopyBody(p) ==
    /\ pc[p] = "copy"
    /\ UNCHANGED <<db, s3, req, loc, hist, lastWriter, nreq, cw, ch, cres, th>>
    /\ \/ Return(p, StatusInternalServerError, "Could not write file to disk", NoVideo,
                 [fs EXCEPT ![loc[p].tempFile] = [kind |-> "partial", rid |-> req[p].rid]],
                 loc[p].defers)
       \/ Return(p, StatusInternalServerError, "Could not reset file pointer", NoVideo,
                 [fs EXCEPT ![loc[p].tempFile] = [kind |-> "raw", rid |-> req[p].rid]],
                 loc[p].defers)
       \/ /\ fs' = [fs EXCEPT ![loc[p].tempFile] = [kind |-> "raw", rid |-> req[p].rid]]
          /\ Goto(p, "inspect")

\* lines 104-118: getVideoAspectRatio(tempFile.Name()) and the directory
Inspect(p) ==
    /\ pc[p] = "inspect"
    /\ UNCHANGED <<db, s3, req, lastWriter, nreq, cw, ch, cres, th>>
    /\ \E out \in ProbeOutputs :
         LET r == getVideoAspectRatio(out)
         IN  IF r.err
             THEN /\ Return(p, StatusInternalServerError, "Error determining aspect ratio",
                            NoVideo, fs, loc[p].defers)
                  /\ loc' = loc
                  /\ hist' = [hist EXCEPT ![p].probe = out]
             ELSE /\ loc' = [loc EXCEPT ![p].directory = DirectoryOf(r.ratio)]
                  /\ hist' = [hist EXCEPT ![p].probe = out, ![p].probed = TRUE]
                  /\ Goto(p, "remux")
                  /\ fs' = fs

(***************************************************************************)
(* processVideoForFastStart, lines 207-228.  ffmpeg is run without -y and  *)
(* with no terminal on stdin, so it exits non-zero without touching an     *)
(* output path that already exists ("failExists").  Otherwise it may exit  *)
(* non-zero having written nothing or part of the output, or exit zero     *)
(* having written no file, an empty file or the remuxed file.              *)
(***************************************************************************)
RemuxOutcomes ==
    {"failExists", "failNoFile", "failPartial", "zeroNoFile", "zeroEmpty", "zeroDone"}

\* the output file an outcome leaves, given the content of the input
RemuxOutput(outcome, input) ==
    CASE outcome = "failPartial" -> [kind |-> "partial", rid |-> input.rid]
      [] outcome = "zeroEmpty" -> [kind |-> "empty", rid |-> input.rid]
      [] outcome = "zeroDone" -> [kind |-> "remuxed", rid |-> input.rid]
      [] OTHER -> Absent

\* mutant: the exit status of ffmpeg is not looked at
processVideoForFastStartErr_ignoreExit(outcome, output) ==
    output = Absent \/ output.kind = "empty"

\* lines 214-225: cmd.Run() failed, os.Stat failed, or the size is 0
processVideoForFastStartErr(outcome, output) ==
    \/ outcome \in {"failExists", "failNoFile", "failPartial"}
    \/ output = Absent
    \/ output.kind = "empty"

\* lines 120-126
Remux(p) ==
    /\ pc[p] = "remux"
    /\ UNCHANGED <<db, s3, req, lastWriter, nreq, cw, ch, cres, th>>
    /\ LET out == ProcessingPath(loc[p].tempFile)
       IN  \E outcome \in RemuxOutcomes :
             /\ fs[out] # Absent <=> outcome = "failExists"
             /\ LET written == RemuxOutput(outcome, fs[loc[p].tempFile])
                    f == IF written = Absent THEN fs ELSE [fs EXCEPT ![out] = written]
                    h == [hist[p] EXCEPT
                            !.created = IF written = Absent THEN @ ELSE @ \cup {out},
                            !.remuxExit = outcome]
                IN  IF processVideoForFastStartErr(outcome, f[out])
                    THEN /\ Return(p, StatusInternalServerError, "Error processing video",
                                   NoVideo, f, loc[p].defers)
                         /\ loc' = loc
                         /\ hist' = [hist EXCEPT ![p] = h]
                    ELSE /\ loc' = [loc EXCEPT ![p].processedFilePath = out,
                                              ![p].defers = Append(@, Defer("Remove", out))]
                         /\ hist' = [hist EXCEPT ![p] = [h EXCEPT !.remuxed = TRUE]]
                         /\ fs' = f
                         /\ Goto(p, "open")

\* lines 128-133: os.Open(processedFilePath)
OpenProcessed(p) ==
    /\ pc[p] = "open"
    /\ UNCHANGED <<db, s3, req, hist, lastWriter, nreq, cw, ch, cres, th>>
    /\ \/ /\ Return(p, StatusInternalServerError, "Could not open processed file", NoVideo,
                    fs, loc[p].defers)
          /\ loc' = loc
       \/ /\ loc' = [loc EXCEPT ![p].defers =
                        Append(@, Defer("Close", loc[p].processedFilePath))]
          /\ fs' = fs
          /\ Goto(p, "put")

\* mutant: the raw staged file is uploaded
PutBodyPath_raw(l) == l.tempFile

\* line 141: Body is processedFile, opened from processedFilePath
PutBodyPath(l) == l.processedFilePath

\* mutant: the error of PutObject is logged but the handler goes on
AfterPutObject_noReturn(ok) == "update"

\* lines 145-148: the handler returns when PutObject failed
AfterPutObject(ok) == IF ok THEN "update" ELSE "return"

\* lines 135-148: the key is derived and the object is put.  The store
\* holds the object once PutObject has returned success, and nothing of it
\* otherwise.
PutObject(p) ==
    /\ pc[p] = "put"
    /\ UNCHANGED <<db, req, lastWriter, nreq, cw, ch, cres, th>>
    /\ LET key == PathJoin(loc[p].directory,
                           getAssetPath(ToString(req[p].rid), loc[p].mediaType))
           body == fs[PutBodyPath(loc[p])]
       IN  \E ok \in BOOLEAN :
             /\ s3' = IF ok
                      THEN {o \in s3 : o.Key # key}
                           \cup {[Key |-> key, Body |-> body,
                                  ContentType |-> loc[p].mediaType]}
                      ELSE s3
             /\ hist' = [hist EXCEPT ![p].puts = @ + 1, ![p].putOK = ok,
                                     ![p].putBody = body]
             /\ loc' = [loc EXCEPT ![p].key = key]
             /\ IF AfterPutObject(ok) = "return"
                THEN Return(p, StatusInternalServerError, "Error uploading file to S3",
                            NoVideo, fs, loc[p].defers)
                ELSE Goto(p, "update") /\ fs' = fs

\* lines 150-157: the record read at line 47, with the new VideoURL, is
\* written back whole
UpdateVideo(p) ==
    /\ pc[p] = "update"
    /\ UNCHANGED <<s3, req, nreq, cw, ch, cres, th>>
    /\ LET videoURL == SprintfComma(s3Bucket, loc[p].key)
           dbVideo == [loc[p].dbVideo EXCEPT !.VideoURL = videoURL]
       IN  /\ loc' = [loc EXCEPT ![p].dbVideo = dbVideo]
           /\ hist' = [hist EXCEPT ![p].updates = @ + 1]
           /\ \/ /\ Return(p, StatusInternalServerError, "Couldn't update video", NoVideo,
                           fs, loc[p].defers)
                 /\ UNCHANGED <<db, lastWriter>>
              \/ /\ db' = [db EXCEPT ![dbVideo.ID] = dbVideo]
                 /\ lastWriter' = [lastWriter EXCEPT ![dbVideo.ID] = req[p].rid]
                 /\ fs' = fs
                 /\ Goto(p, "sign")

\* lines 159-167
Sign(p) ==
    /\ pc[p] = "sign"
    /\ UNCHANGED <<db, s3, req, loc, hist, lastWriter, nreq, cw, ch, cres, th>>
    /\ \E signOK \in BOOLEAN :
         LET r == dbVideoToSignedVideo(loc[p].dbVideo, signOK)
         IN  IF r.err
             THEN Return(p, StatusInternalServerError, "Couldn't generate presigned URL",
                         NoVideo, fs, loc[p].defers)
             ELSE Return(p, StatusOK, "", r.video, fs, loc[p].defers)

\* the response has been sent; the slot is free for the next request
Finish(p) ==
    /\ pc[p] = "done"
    /\ pc' = [pc EXCEPT ![p] = "idle"]
    /\ req' = [req EXCEPT ![p] = NoReq]
    /\ loc' = [loc EXCEPT ![p] = NoLoc]
    /\ resp' = [resp EXCEPT ![p] = NoResp]
    /\ hist' = [hist EXCEPT ![p] = NoHist]
    /\ UNCHANGED <<db, s3, fs, lastWriter, nreq, cw, ch, cres, th>>

Next ==
    \E p \in Procs :
        \/ Receive(p)
        \/ Authenticate(p)
        \/ GetVideo(p)
        \/ FormFile(p)
        \/ CreateTemp(p)
        \/ CopyBody(p)
        \/ Inspect(p)
        \/ Remux(p)
        \/ OpenProcessed(p)
        \/ PutObject(p)
        \/ UpdateVideo(p)
        \/ Sign(p)
        \/ Finish(p)

Spec == Init /\ [][Next]_vars

(***************************************************************************)
(* handlerUploadThumbnail, handler_upload_thumbnail.go lines 102-181 (the  *)
(* revision that writes the image to a file under cfg.assetsRoot).  One    *)
(* thumbnail upload at a time runs beside the video ingestion of slot p1.  *)
(***************************************************************************)
IngestSlots == {"p1"}

\* respondWithError / respondWithJSON followed by return
Answer(t, status, msg, body) ==
    [t EXCEPT !.pc = "done", !.status = status, !.msg = msg, !.body = body]

\* lines 103-134: uuid.Parse, auth.GetBearerToken, auth.ValidateJWT,
\* r.ParseMultipartForm and r.FormFile("thumbnail"); these read the request
\* only, so the model takes them in one step
T_Receive ==
    /\ th.pc = "idle"
    /\ th.n < MaxThumbs
    /\ UNCHANGED <<db, s3, fs, pc, req, loc, resp, hist, lastWriter, nreq, cw, ch, cres>>
    /\ \E v \in VideoIDStrings :
         LET t == [NoThumb EXCEPT !.n = th.n + 1, !.videoIDString = v]
         IN  IF v = "not-a-uuid"
             THEN th' = Answer(t, StatusBadRequest, "Invalid ID", NoVideo)
             ELSE \E tok \in Tokens :
                    IF tok = "none"
                    THEN th' = Answer(t, StatusUnauthorized, "Couldn't find JWT", NoVideo)
                    ELSE IF tok = "bad"
                    THEN th' = Answer(t, StatusUnauthorized, "Couldn't validate JWT", NoVideo)
                    ELSE \/ th' = Answer([t EXCEPT !.userID = tok], StatusBadRequest,
                                         "Unable to parse form file", NoVideo)
                         \/ \E ct \in ThumbContentTypes :
                              th' = [t EXCEPT !.userID = tok, !.hasPart = TRUE,
                                              !.contentType = ct, !.pc = "getVideo"]

\* lines 136-146: cfg.db.GetVideo and the ownership check
T_GetVideo ==
    /\ th.pc = "getVideo"
    /\ UNCHANGED <<db, s3, fs, pc, req, loc, resp, hist, lastWriter, nreq, cw, ch, cres>>
    /\ \E dbErr \in BOOLEAN :
         IF dbErr \/ th.videoIDString \notin StoredVideos
         THEN th' = Answer(th, StatusNotFound, "Unable to find video metadata", NoVideo)
         ELSE LET dbVideo == db[th.videoIDString]
              IN  IF dbVideo.UserID # th.userID
                  THEN th' = Answer([th EXCEPT !.dbVideo = dbVideo], StatusUnauthorized,
                                    "Unauthorized: user is not video owner", NoVideo)
                  ELSE th' = [th EXCEPT !.dbVideo = dbVideo, !.pc = "create"]

\* lines 148-168: the extension is parts[1] of the header split on "/", an
\* index out of range when the header has no "/": the handler panics and
\* net/http drops the connection without a response.  Otherwise os.Create
\* truncates or creates the file and io.Copy fills it.
T_CreateFile ==
    /\ th.pc = "create"
    /\ UNCHANGED <<db, s3, pc, req, loc, resp, hist, lastWriter, nreq, cw, ch, cres>>
    /\ LET parts == Split(th.contentType, "/")
       IN  IF Len(parts) < 2
           THEN /\ th' = [th EXCEPT !.pc = "panicked"]
                /\ fs' = fs
           ELSE LET filePath == ThumbnailPath(th.videoIDString, parts)
                    t == [th EXCEPT !.filePath = filePath]
                IN  \/ /\ th' = Answer(t, StatusInternalServerError,
                                        "Couldn't create file in system storage", NoVideo)
                       /\ fs' = fs
                    \/ /\ th' = Answer(t, StatusInternalServerError,
                                        "Couldn't copy contents to system file", NoVideo)
                       /\ fs' = [fs EXCEPT ![filePath] = [kind |-> "partial", rid |-> 0]]
                    \/ /\ th' = [t EXCEPT !.pc = "update"]
                       /\ fs' = [fs EXCEPT ![filePath] = [kind |-> "image", rid |-> 0]]

\* fmt.Sprintf("http://localhost:%s/assets/%s.%s", ...), line 170
ThumbnailURL(filePath) == <<"http://localhost:", "port", "/assets/">> \o filePath

\* lines 170-180: the record read at line 137, with the new ThumbnailURL,
\* is written back whole
T_UpdateVideo ==
    /\ th.pc = "update"
    /\ UNCHANGED <<s3, fs, pc, req, loc, resp, hist, lastWriter, nreq, cw, ch, cres>>
    /\ LET dbVideo == [th.dbVideo EXCEPT !.ThumbnailURL = ThumbnailURL(th.filePath)]
           t == [th EXCEPT !.dbVideo = dbVideo]
       IN  \/ /\ th' = Answer(t, StatusInternalServerError,
                               "Unable to update video metadata", NoVideo)
              /\ db' = db
           \/ /\ th' = Answer(t, StatusOK, "", dbVideo)
              /\ db' = [db EXCEPT ![dbVideo.ID] = dbVideo]

\* the request is over: answered, or dropped after the panic
T_Finish ==
    /\ th.pc \in {"done", "panicked"}
    /\ th' = [NoThumb EXCEPT !.n = th.n]
    /\ UNCHANGED <<db, s3, fs, pc, req, loc, resp, hist, lastWriter, nreq, cw, ch, cres>>

NextThumb ==
    \/ \E p \in IngestSlots :
          \/ Receive(p)
          \/ Authenticate(p)
          \/ GetVideo(p)
          \/ FormFile(p)
          \/ CreateTemp(p)
          \/ CopyBody(p)
          \/ Inspect(p)
          \/ Remux(p)
          \/ OpenProcessed(p)
          \/ PutObject(p)
          \/ UpdateVideo(p)
          \/ Sign(p)
          \/ Finish(p)
    \/ T_Receive
    \/ T_GetVideo
    \/ T_CreateFile
    \/ T_UpdateVideo
    \/ T_Finish

SpecThumb == Init /\ [][NextThumb]_vars

(***************************************************************************)
(* The classification as a function of the pixel size: every size up to    *)
(* MaxDim is classified once.                                              *)
(***************************************************************************)
InitClassify ==
    /\ InitPipeline
    /\ cw \in 0..MaxDim
    /\ ch \in 0..MaxDim
    /\ cres = <<>>

Classify ==
    /\ cres = <<>>
    /\ cres' = getVideoAspectRatio([kind |-> "streams", w |-> cw, h |-> ch]).ratio
    /\ UNCHANGED <<db, s3, fs, pc, req, loc, resp, hist, lastWriter, nreq, cw, ch, th>>

NextClassify == Classify

SpecClassify == InitClassify /\ [][NextClassify]_vars

(***************************************************************************)
(* Vocabulary of the properties.                                           *)
(***************************************************************************)
\* the video a request addresses, when it has a record
HasRecord(p) == req[p].videoIDString \in StoredVideos

\* no other request has written the record since p was received
NoOtherWriter(p) == lastWriter[req[p].videoIDString] = hist[p].writerBefore

\* the record p addresses is as it was when p was received
RecordAsBefore(p) == db[req[p].videoIDString] = hist[p].recBefore

\* the files created by the invocation in slot p that still hold what it
\* (or the tool it ran) wrote
Leftover(p) == {q \in hist[p].created : fs[q] # Absent /\ fs[q].rid = req[p].rid}

\* the durable reference of a stored object
RefOf(o) == SprintfComma(s3Bucket, o.Key)

\* the declared Content-Type names the media type video/mp4
DeclaresMP4(ct) ==
    /\ ~ParseMediaType(ct).err
    /\ ParseMediaType(ct).mediaType = <<"video", "/", "mp4">>

(***************************************************************************)
(* C1.  A record's location reference is empty or names an object whose    *)
(* PutObject has returned success with the remuxed artifact, and no        *)
(* ingestion calls UpdateVideo before its own PutObject returned success.  *)
(***************************************************************************)
C1_ReferenceNamesStoredObject ==
    /\ \A v \in StoredVideos :
         \/ db[v].VideoURL = NULL
         \/ \E o \in s3 : db[v].VideoURL = RefOf(o) /\ o.Body.kind = "remuxed"
    /\ \A p \in Procs :
         (pc[p] \in {"update", "sign"} \/ hist[p].updates > 0) => hist[p].putOK

\* a record references an object while another ingestion has put its object
\* and is about to update the record
C1_Witness ==
    /\ db["v1"].VideoURL # NULL
    /\ \E p \in Procs : pc[p] = "update" /\ hist[p].putOK

(***************************************************************************)
(* C2.  When PutObject fails the ingestion ends with an error, has not     *)
(* called UpdateVideo, and the record is as it was when the request came   *)
(* in (unless another request has written it meanwhile).                   *)
(***************************************************************************)
C2_PutFailureLeavesRecord ==
    \A p \in Procs :
        (hist[p].puts > 0 /\ ~hist[p].putOK) =>
            /\ pc[p] = "done"
            /\ resp[p].status = StatusInternalServerError
            /\ resp[p].msg = "Error uploading file to S3"
            /\ hist[p].updates = 0
            /\ lastWriter[req[p].videoIDString] # req[p].rid
            /\ NoOtherWriter(p) => RecordAsBefore(p)

\* a failed put of a re-upload: the record held a reference before the call
C2_Witness ==
    \E p \in Procs :
        /\ pc[p] = "done"
        /\ hist[p].puts > 0 /\ ~hist[p].putOK
        /\ hist[p].recBefore.VideoURL # NULL

(***************************************************************************)
(* C3.  When the handler has returned, no temporary file it created (the   *)
(* raw staged file, the "<raw>.processing" file) exists any more.          *)
(***************************************************************************)
C3_NoTempFileAfterReturn ==
    \A p \in Procs : pc[p] = "done" => Leftover(p) = {}

(***************************************************************************)
(* C4.  PutObject is called only after getVideoAspectRatio and             *)
(* processVideoForFastStart have both succeeded, and its body is the       *)
(* remuxed file of this request, never the raw staged file.                *)
(***************************************************************************)
C4_PutAfterInspectAndRemux ==
    /\ \A p \in Procs :
         /\ pc[p] = "put" => hist[p].probed /\ hist[p].remuxed
         /\ hist[p].puts > 0 =>
              /\ hist[p].probed /\ hist[p].remuxed
              /\ hist[p].putBody = [kind |-> "remuxed", rid |-> req[p].rid]
    /\ \A o \in s3 : o.Body.kind = "remuxed"

C4_Witness ==
    \E p \in Procs : hist[p].puts > 0 /\ hist[p].putOK /\ s3 # {}

(***************************************************************************)
(* C5.  When ffmpeg exits non-zero the ingestion ends with the processing  *)
(* error, the raw staged file is gone when the handler has returned, no    *)
(* PutObject and no UpdateVideo was made, and the record is as before.     *)
(***************************************************************************)
C5_RemuxFailure ==
    \A p \in Procs :
        hist[p].remuxExit \in {"failExists", "failNoFile", "failPartial"} =>
            /\ pc[p] = "done"
            /\ resp[p].status = StatusInternalServerError
            /\ resp[p].msg = "Error processing video"
            /\ loc[p].tempFile \notin Leftover(p)
            /\ hist[p].puts = 0
            /\ hist[p].updates = 0
            /\ NoOtherWriter(p) => RecordAsBefore(p)

\* ffmpeg failed after writing part of its output, on a re-upload
C5_Witness ==
    \E p \in Procs :
        /\ pc[p] = "done"
        /\ hist[p].remuxExit = "failPartial"
        /\ hist[p].recBefore.VideoURL # NULL

(***************************************************************************)
(* C6.  A request whose "video" part declares a media type other than      *)
(* video/mp4 is rejected with 400 as an invalid or unsupported media type. *)
(* The request creates no temporary file, puts no object and does not      *)
(* update the record.                                                      *)
(***************************************************************************)
C6_UnsupportedMediaTypeRejected ==
    \A p \in Procs :
        (req[p].bodyRead /\ req[p].hasPart /\ ~DeclaresMP4(req[p].contentType)) =>
            /\ pc[p] = "done"
            /\ resp[p].status = StatusBadRequest
            /\ resp[p].msg \in {"Invalid Content-Type",
                               "Invalid file type, only MP4 is allowed"}
            /\ hist[p].created = {}
            /\ hist[p].puts = 0
            /\ hist[p].updates = 0
            /\ lastWriter[req[p].videoIDString] # req[p].rid
            /\ NoOtherWriter(p) => RecordAsBefore(p)

\* image/png has been rejected while the record holds a reference
C6_Witness ==
    \E p \in Procs :
        /\ pc[p] = "done"
        /\ req[p].bodyRead /\ req[p].hasPart
        /\ req[p].contentType = <<"image", "/", "png">>
        /\ hist[p].recBefore.VideoURL # NULL

(***************************************************************************)
(* C7.  A request whose length exceeds the 1 GiB ceiling fails with 413    *)
(* (PayloadTooLarge) and no byte of its body has been read.                *)
(***************************************************************************)
C7_OversizeRejectedBeforeRead ==
    \A p \in Procs :
        (req[p].bodyRead /\ req[p].bodyLen > uploadLimit) =>
            /\ pc[p] = "done"
            /\ resp[p].status = 413
            /\ hist[p].bytesRead = 0
            /\ hist[p].created = {}
            /\ hist[p].puts = 0
            /\ hist[p].updates = 0

(***************************************************************************)
(* C8.  An ingestion whose authenticated user is not the owner of the      *)
(* record is rejected at the ownership check, after the lookup: it reads   *)
(* no body, stages, probes, remuxes, puts and updates nothing, so the      *)
(* location reference is only ever written by an ingestion of the owner.   *)
(***************************************************************************)
C8_OnlyOwnerChangesReference ==
    \A p \in Procs :
        /\ (HasRecord(p) /\ loc[p].userID \in Users
              /\ loc[p].userID # OwnerOf(req[p].videoIDString)) =>
                /\ pc[p] \in {"getVideo", "done"}
                /\ pc[p] = "done" =>
                     /\ resp[p].status # StatusOK
                     /\ resp[p].msg \in {"Couldn't find video",
                                         "Not authorized to update this video"}
                /\ ~req[p].bodyRead /\ hist[p].bytesRead = 0
                /\ hist[p].created = {}
                /\ ~hist[p].probed /\ ~hist[p].remuxed
                /\ hist[p].puts = 0
                /\ hist[p].updates = 0
                /\ lastWriter[req[p].videoIDString] # req[p].rid
        /\ hist[p].updates > 0 =>
             /\ HasRecord(p)
             /\ loc[p].userID = db[req[p].videoIDString].UserID

\* a non-owner has been rejected after the lookup, the record holding the
\* reference an ingestion of the owner wrote
C8_Witness ==
    \E p \in Procs :
        /\ pc[p] = "done"
        /\ loc[p].userID = "u2"
        /\ resp[p].msg = "Not authorized to update this video"
        /\ loc[p].dbVideo.ID = "v1"
        /\ db["v1"].VideoURL # NULL

(***************************************************************************)
(* C9.  Every error response carries the status of its kind: 400 invalid   *)
(* id and unsupported media type, 401 missing or invalid credentials, 403  *)
(* an authenticated non-owner, 404 a missing record, 413 an oversized      *)
(* payload, 500 staging, inspection, processing, storage and update        *)
(* failures.                                                               *)
(***************************************************************************)
\* the status the taxonomy assigns to the return path the handler took
TaxonomyStatus(p) ==
    CASE resp[p].msg = "Invalid ID" -> 400
      [] resp[p].msg \in {"Couldn't find JWT", "Couldn't validate JWT"} -> 401
      [] resp[p].msg = "Couldn't find video" ->
            IF HasRecord(p) THEN 500 ELSE 404
      [] resp[p].msg = "Not authorized to update this video" -> 403
      [] resp[p].msg = "Unable to parse form file" ->
            IF req[p].bodyLen > uploadLimit THEN 413 ELSE 400
      [] resp[p].msg \in {"Invalid Content-Type",
                          "Invalid file type, only MP4 is allowed"} -> 400
      [] OTHER -> 500

C9_StatusOfEachErrorKind ==
    \A p \in Procs :
        (pc[p] = "done" /\ resp[p].status # StatusOK) =>
            resp[p].status = TaxonomyStatus(p)

C11_ClassOfTruncatedRatio ==
    (cres # <<>> /\ ch > 0) =>
        LET k == (100 * cw) \div ch
        IN  cres = IF 54 < k /\ k < 58 THEN <<"9:16">>
                   ELSE IF 174 < k /\ k < 178 THEN <<"16:9">>
                   ELSE <<"other">>

(***************************************************************************)
(* C12.  The probe yields the class Other only for a measured size: a      *)
(* probe that failed to run, output that could not be parsed, an empty     *)
(* stream list or a first stream without a width and a height ends the     *)
(* ingestion with the inspection error, and nothing is put under "other/". *)
(***************************************************************************)
Unmeasured(out) ==
    \/ out.kind \in {"execError", "badJSON", "noStreams"}
    \/ out.kind = "streams" /\ (out.w = 0 \/ out.h = 0)

C12_OtherOnlyForMeasuredRatio ==
    \A p \in Procs :
        Unmeasured(hist[p].probe) =>
            /\ pc[p] = "done"
            /\ resp[p].status = StatusInternalServerError
            /\ resp[p].msg = "Error determining aspect ratio"
            /\ loc[p].directory # <<"other">>
            /\ hist[p].puts = 0

(***************************************************************************)
(* C13.  The VideoURL stored in the database is nil or the durable         *)
(* "bucket,key" string, never a presigned URL: signing changes only the    *)
(* copy of the record that is sent in the response.                        *)
(***************************************************************************)
IsSignedURL(url) == Len(url) > 0 /\ url[1] = "https://"

C13_SignedURLNeverStored ==
    /\ \A v \in StoredVideos : ~IsSignedURL(db[v].VideoURL)
    /\ \A p \in Procs :
         (pc[p] = "done" /\ resp[p].status = StatusOK) =>
            /\ IsSignedURL(resp[p].body.VideoURL)
            /\ ~IsSignedURL(loc[p].dbVideo.VideoURL)
            /\ lastWriter[req[p].videoIDString] = req[p].rid =>
                 db[req[p].videoIDString] = loc[p].dbVideo

\* a response carries a presigned URL while the record holds the reference
C13_Witness ==
    \E p \in Procs :
        /\ pc[p] = "done" /\ resp[p].status = StatusOK
        /\ IsSignedURL(resp[p].body.VideoURL)
        /\ db[req[p].videoIDString].VideoURL = RefOf([Key |-> loc[p].key])

(***************************************************************************)
(* C14.  The stored string round-trips: splitting what UpdateVideo         *)
(* persisted gives back the bucket and the whole key of the object that    *)
(* was put, for every bucket name, and the response URL is signed for      *)
(* that bucket and key.                                                    *)
(***************************************************************************)
\* bucket names S3 admits: lower-case letters, digits, dots and hyphens
BucketNames ==
    { s3Bucket, <<"videos">>, <<"my", ".", "bucket", "-", "2">> }

\* lines 234-239: the bucket and the key read back from a stored string
ParseRef(url) ==
    LET parts == Split(url, ",")
    IN  IF Len(parts) < 2 THEN <<>> ELSE <<parts[1], parts[2]>>

C14_StoredReferenceRoundTrips ==
    \A p \in Procs :
        hist[p].updates > 0 =>
            /\ ParseRef(loc[p].dbVideo.VideoURL) = <<s3Bucket, loc[p].key>>
            /\ \E o \in s3 : o.Key = loc[p].key
            /\ pc[p] = "sign" => \A b \in BucketNames :
                 /\ ParseRef(SprintfComma(b, loc[p].key)) = <<b, loc[p].key>>
                 /\ dbVideoToSignedVideo(
                        [loc[p].dbVideo EXCEPT !.VideoURL = SprintfComma(b, loc[p].key)],
                        TRUE).video.VideoURL = PresignedURL(b, loc[p].key)
            /\ (pc[p] = "done" /\ resp[p].status = StatusOK) =>
                 resp[p].body.VideoURL = PresignedURL(s3Bucket, loc[p].key)

\* a reference has been persisted and its URL signed
C14_Witness ==
    \E p \in Procs :
        /\ pc[p] = "done" /\ resp[p].status = StatusOK
        /\ hist[p].updates > 0
        /\ Len(loc[p].key) = 5

(***************************************************************************)
(* C15.  A failed ingestion leaves nothing that blocks a later one: the    *)
(* remux step of a later ingestion succeeds even when its output path      *)
(* already exists, so an ingestion that meets a file left at its output    *)
(* path is not answered with the remux error.                              *)
(***************************************************************************)
C15_RemuxSucceedsOverExistingOutput ==
    \A p \in Procs :
        hist[p].remuxExit = "failExists" =>
            /\ hist[p].remuxed
            /\ ~(pc[p] = "done" /\ resp[p].msg = "Error processing video")

(***************************************************************************)
(* C16.  When UpdateVideo fails after PutObject succeeded, the response    *)
(* is the metadata-update error, the object is in the store under the      *)
(* derived key, the record holds what it held before the call (so the new  *)
(* object is not referenced) and both temp files are removed.              *)
(***************************************************************************)
UpdateFailed(p) ==
    /\ pc[p] = "done"
    /\ hist[p].updates > 0
    /\ resp[p].msg = "Couldn't update video"

C16_UpdateFailureLeavesRecord ==
    \A p \in Procs :
        UpdateFailed(p) =>
            LET v == req[p].videoIDString
            IN  /\ resp[p].status = StatusInternalServerError
                /\ lastWriter[v] # req[p].rid
                /\ hist[p].putOK
                /\ \E o \in s3 : /\ o.Key = loc[p].key
                                 /\ o.Body = [kind |-> "remuxed", rid |-> req[p].rid]
                /\ db[v].VideoURL # s3Bucket \o <<",">> \o loc[p].key
                /\ NoOtherWriter(p) => RecordAsBefore(p)
                /\ fs[loc[p].tempFile] = Absent \/ fs[loc[p].tempFile].rid # req[p].rid
                /\ \/ fs[loc[p].processedFilePath] = Absent
                   \/ fs[loc[p].processedFilePath].rid # req[p].rid
                /\ Leftover(p) = {}

\* an update failed after its object was put
C16_Witness ==
    \E p \in Procs :
        /\ UpdateFailed(p)
        /\ RecordAsBefore(p)
        /\ \E o \in s3 : o.Key = loc[p].key

(***************************************************************************)
(* C17.  Two ingestions of the same video that run concurrently and both   *)
(* succeed put their objects under distinct keys, and under every          *)
(* interleaving the record's reference is the one written by the           *)
(* UpdateVideo that ran last: the key that ingestion produced, which names *)
(* a completely stored object.                                             *)
(***************************************************************************)
\* the request whose getAssetPath call produced the key
ProducerOf(key) == key[3]

Succeeded(p) == pc[p] = "done" /\ resp[p].status = StatusOK

C17_LastUpdateWins ==
    /\ \A v \in StoredVideos :
         lastWriter[v] # 0 =>
            \E o \in s3 :
                /\ db[v].VideoURL = s3Bucket \o <<",">> \o o.Key
                /\ ProducerOf(o.Key) = ToString(lastWriter[v])
                /\ o.Body = [kind |-> "remuxed", rid |-> lastWriter[v]]
    /\ \A p \in Procs :
         (Succeeded(p) /\ lastWriter[req[p].videoIDString] = req[p].rid) =>
            db[req[p].videoIDString].VideoURL = s3Bucket \o <<",">> \o loc[p].key
    /\ \A p, q \in Procs :
         (p # q /\ Succeeded(p) /\ Succeeded(q)
              /\ req[p].videoIDString = req[q].videoIDString) =>
            /\ loc[p].key # loc[q].key
            /\ lastWriter[req[p].videoIDString] \in {req[p].rid, req[q].rid}
            /\ \A l \in {loc[p], loc[q]} : \E o \in s3 : o.Key = l.key

\* two ingestions of one video have both succeeded, the one received
\* first having updated the record last
C17_Witness ==
    \E p, q \in Procs :
        /\ p # q /\ Succeeded(p) /\ Succeeded(q)
        /\ req[p].videoIDString = req[q].videoIDString
        /\ req[p].rid < req[q].rid
        /\ lastWriter[req[p].videoIDString] = req[p].rid

(***************************************************************************)
(* C18.  No two in-flight requests use the same staged file path: the raw  *)
(* names of requests in flight differ, each remux output path is its       *)
(* request's raw name plus ".processing", and the files a request staged   *)
(* hold what that request wrote until it returns; what it uploads is its   *)
(* own file.                                                               *)
(***************************************************************************)
\* the request in slot p has staged its raw file and has not returned
InFlight(p) == pc[p] \in {"copy", "inspect", "remux", "open", "put", "update", "sign"}

C18_StagedPathsAreDisjoint ==
    /\ \A p \in Procs :
         InFlight(p) =>
            /\ fs[loc[p].tempFile] # Absent
            /\ fs[loc[p].tempFile].rid = req[p].rid
            /\ loc[p].processedFilePath # <<>> =>
                 /\ loc[p].processedFilePath = loc[p].tempFile \o <<".processing">>
                 /\ fs[loc[p].processedFilePath] = [kind |-> "remuxed", rid |-> req[p].rid]
            /\ hist[p].puts > 0 => hist[p].putBody.rid = req[p].rid
    /\ \A p, q \in Procs :
         (p # q /\ InFlight(p) /\ InFlight(q)) =>
            {loc[p].tempFile, loc[p].tempFile \o <<".processing">>}
              \cap {loc[q].tempFile, loc[q].tempFile \o <<".processing">>} = {}

\* two requests are in flight at once, both with a remuxed file staged
C18_Witness ==
    \E p, q \in Procs :
        /\ p # q /\ InFlight(p) /\ InFlight(q)
        /\ loc[p].processedFilePath # <<>>
        /\ loc[q].processedFilePath # <<>>

(***************************************************************************)
(* C19.  Only the video ingestion writes the record's reference: once an   *)
(* ingestion has committed its "bucket,key", the record holds that         *)
(* reference whatever a thumbnail upload of the same video does, and still *)
(* holds it when the thumbnail upload has completed.                       *)
(***************************************************************************)
\* the reference committed by the ingestion that updated video v last
CommittedBy(v, url) ==
    \E o \in s3 : /\ ProducerOf(o.Key) = ToString(lastWriter[v])
                  /\ url = s3Bucket \o <<",">> \o o.Key

C19_ThumbnailKeepsReference ==
    \A v \in StoredVideos :
        (lastWriter[v] # 0 /\ th.pc = "done" /\ th.videoIDString = v) =>
            CommittedBy(v, db[v].VideoURL)

(***************************************************************************)
(* C20.  Every thumbnail upload by the authenticated owner ends with a     *)
(* response, whatever the Content-Type header of the part is: the          *)
(* extension is never taken past the end of the split header.              *)
(***************************************************************************)
C20_ThumbnailAlwaysAnswered ==
    /\ th.pc # "panicked"
    /\ (th.pc = "done" /\ th.hasPart /\ th.userID = th.dbVideo.UserID) =>
          /\ th.status # 0
          /\ Len(Split(th.contentType, "/")) < 2 =>
               th.status \in {StatusBadRequest, StatusInternalServerError}
====
